---- MODULE Spec2Model ----
(***************************************************************************)
(* A model of pdb_eda.ccp4: the CCP4 map parser (parse, DensityHeader),    *)
(* the grid queries of DensityMatrix and the blobs of DensityBlob.         *)
(*                                                                         *)
(* Conventions.                                                            *)
(*  - A Python list or tuple of three items is a TLA+ sequence of length   *)
(*    3; Python's index i is position i + 1, and a negative Python index   *)
(*    counts from the end (PyIdx).                                         *)
(*  - Physical lengths (cell edges, grid spacing, xyz coordinates, radii)  *)
(*    are exact rationals written as integers in units of half an          *)
(*    angstrom, so that positions halfway between grid points exist.       *)
(*    Floating-point rounding error is not modelled.                       *)
(*  - Density values are integers in units of a tenth (5.0 is 50, a        *)
(*    cutoff of 0.1 is 1).                                                 *)
(*  - Only orthogonal cells (alpha = beta = gamma = 90) are drawn as       *)
(*    inputs: the orthogonal branches of the coordinate transforms.        *)
(*  - An operation that raises leaves the exception's name in err.         *)
(***************************************************************************)
EXTENDS Integers, Sequences, FiniteSets, TLC

VARIABLES
    pc,       \* where the program is: "start", "parsed" or "failed" (parse),
              \* "returned" (a query), "madeA", "madeB", "annotatedA",
              \* "ready", "raised" (the blobs)
    file,     \* the bytes handed to parse: the header fields and the body
    header,   \* the DensityHeader object (its fields), once constructed
    matrix,   \* the DensityMatrix: its flat densityArray
    err,      \* the exception the last operation raised, or "none"
    call,     \* the last query made on the parsed map, with its arguments
    ret,      \* what the last query returned
    blobs     \* the DensityBlob objects a and b

vars == <<pc, file, header, matrix, err, call, ret, blobs>>

----------------------------------------------------------------------------
(* Bounds of the model.                                                    *)

\* the largest extent (ncrs) drawn for an axis
MaxExtent == 2
\* the largest interval count drawn for an axis
MaxInterval == 3
\* how far (in 4-byte words) the body length may be off the expected length
MaxDelta == 1

----------------------------------------------------------------------------
(* Python and numpy primitives.                                            *)

Seq3(S) == [1..3 -> S]

\* a Python index into a list of length 3: negative indices count from the end
PyIdx(i) == IF i < 0 THEN i + 3 ELSE i

\* lst[i] for a list of three
At(lst, i) == lst[PyIdx(i) + 1]

\* Python's `0 & x` on integers: always 0
BitAndZero(x) == 0

\* Python's `0 | x` on integers: x
BitOrZero(x) == x

Max(a, b) == IF a >= b THEN a ELSE b

Min(a, b) == IF a <= b THEN a ELSE b

----------------------------------------------------------------------------
(* DensityHeader.                                                          *)

\* ncrs[0] * ncrs[1] * ncrs[2] * 4: the byte length of the density body
mapSize(ncrs) == ncrs[1] * ncrs[2] * ncrs[3] * 4

\* the list `indices` after the three assignments, in order (a later
\* assignment to the same slot overwrites an earlier one)
map2xyzOf(col2xyz, row2xyz, sec2xyz) ==
    LET i0 == <<0, 0, 0>>
        i1 == [i0 EXCEPT ![PyIdx(col2xyz - 1) + 1] = 0]
        i2 == [i1 EXCEPT ![PyIdx(row2xyz - 1) + 1] = 1]
    IN  [i2 EXCEPT ![PyIdx(sec2xyz - 1) + 1] = 2]

map2crsOf(col2xyz, row2xyz, sec2xyz) == <<col2xyz - 1, row2xyz - 1, sec2xyz - 1>>

\* the extent of an axis, cut down to the interval count of the xyz axis the
\* file field `code` names when that is smaller
uniqueExtent(extent, xyzInterval, code) ==
    IF At(xyzInterval, code - 1) < extent THEN At(xyzInterval, code - 1) ELSE extent

\* what raises while DensityHeader.__init__ runs on the header tuple t:
\* the division x/y of gridLength by a zero interval count, or an axis code
\* that is no index of a list of three
headerRaises(t) ==
    IF \E i \in 1..3 : t.nint[i] = 0 THEN "ZeroDivisionError"
    ELSE IF \E c \in {t.col2xyz, t.row2xyz, t.sec2xyz} : c - 1 < -3 \/ c - 1 > 2
         THEN "IndexError"
    ELSE "none"

\* the origin: crsStart as a fraction of the cell through orthoMat (a numpy
\* array), unless the last three futureUse slots are not all zero: then the
\* originEM triple, a Python list
originOf(t, m2x, gridLength) ==
    IF t.futureUseTail = <<0, 0, 0>>
    THEN [kind |-> "ndarray",
          at   |-> [i \in 1..3 |-> At(t.crsStart, m2x[i]) * gridLength[i]]]
    ELSE [kind |-> "list", at |-> t.originEM]

\* the fields of the DensityHeader built from header tuple t, when nothing
\* raises.  gridLength is xyzLength / xyzInterval, exact for the inputs drawn.
DensityHeaderOf(t) ==
    LET gl  == [i \in 1..3 |-> t.xyzLength[i] \div t.nint[i]]
        m2x == map2xyzOf(t.col2xyz, t.row2xyz, t.sec2xyz)
        m2c == map2crsOf(t.col2xyz, t.row2xyz, t.sec2xyz)
    IN  [ncrs          |-> t.ncrs,
         crsStart      |-> t.crsStart,
         nintervalX    |-> t.nint[1],
         nintervalY    |-> t.nint[2],
         nintervalZ    |-> t.nint[3],
         xyzLength     |-> t.xyzLength,
         angles        |-> t.angles,
         col2xyz       |-> t.col2xyz,
         row2xyz       |-> t.row2xyz,
         sec2xyz       |-> t.sec2xyz,
         symmetryBytes |-> t.symmetryBytes,
         mapSize       |-> mapSize(t.ncrs),
         xyzInterval   |-> t.nint,
         gridLength    |-> gl,
         map2xyz       |-> m2x,
         map2crs       |-> m2c,
         crsInterval   |-> [i \in 1..3 |-> At(t.nint, m2c[i])],
         unitVolume    |-> gl[1] * gl[2] * gl[3],
         origin        |-> originOf(t, m2x, gl),
         uniqueNcrs    |-> <<uniqueExtent(t.ncrs[1], t.nint, t.col2xyz),
                             uniqueExtent(t.ncrs[2], t.nint, t.row2xyz),
                             uniqueExtent(t.ncrs[3], t.nint, t.sec2xyz)>>]

\* the header before one is constructed
NoHeader == [ncrs |-> <<0, 0, 0>>]

----------------------------------------------------------------------------
(* parse.                                                                  *)

\* the sanity check on file sizes of a body of n bytes: the block is skipped
\* when the sizes agree, and otherwise all four asserts must pass.  In Python
\* `a == 0 | n != b` is the chained comparison a == (0 | n) and (0 | n) != b.
sizeCheckOnlyShort(h, n) == n >= h.symmetryBytes + h.mapSize

sizeCheckPasses(h, n) ==
    \/ n = h.symmetryBytes + h.mapSize
    \/ /\ h.symmetryBytes = BitOrZero(n) /\ BitOrZero(n) # h.mapSize
       /\ h.mapSize = BitOrZero(n) /\ BitOrZero(n) # h.symmetryBytes
       /\ n > h.symmetryBytes + h.mapSize
       /\ n < h.symmetryBytes + h.mapSize

\* the assert on the cell dimensions
cellCheckPasses(h) ==
    h.xyzLength[1] # 0 \/ h.xyzLength[2] # 0 \/ h.xyzLength[3] # 0

\* `ninterval == 0 & extent > 0`: the chained comparison
\* ninterval == (0 & extent) and (0 & extent) > 0
intervalFixApplies(ninterval, extent) ==
    ninterval = BitAndZero(extent) /\ BitAndZero(extent) > 0

\* `col2xyz == 0 & row2xyz == 0 & sec2xyz == 0`: the chained comparison
\* col2xyz == (0 & row2xyz) == (0 & sec2xyz) == 0
mappingFixApplies(col2xyz, row2xyz, sec2xyz) ==
    /\ col2xyz = BitAndZero(row2xyz)
    /\ BitAndZero(row2xyz) = BitAndZero(sec2xyz)
    /\ BitAndZero(sec2xyz) = 0

\* the header after parse's corrective defaults: only the six fields are
\* assigned, nothing derived from them in __init__ is computed again
fixedHeader(h) ==
    LET h1 == IF intervalFixApplies(h.nintervalX, h.ncrs[1])
              THEN [h EXCEPT !.nintervalX = h.ncrs[1] - 1] ELSE h
        h2 == IF intervalFixApplies(h1.nintervalY, h1.ncrs[2])
              THEN [h1 EXCEPT !.nintervalY = h1.ncrs[2] - 1] ELSE h1
        h3 == IF intervalFixApplies(h2.nintervalZ, h2.ncrs[3])
              THEN [h2 EXCEPT !.nintervalZ = h2.ncrs[3] - 1] ELSE h2
    IN  IF mappingFixApplies(h3.col2xyz, h3.row2xyz, h3.sec2xyz)
        THEN [h3 EXCEPT !.col2xyz = 1, !.row2xyz = 2, !.sec2xyz = 3]
        ELSE h3

\* the k-th (from 0) 32-bit float of a body written with the given pattern
bodyValue(pattern, k) ==
    CASE pattern = "spike" -> IF k = 0 THEN 50 ELSE 0
      [] pattern = "ramp"  -> 10 * (k + 1)
      [] pattern = "mixed" -> 10 * ((k % 3) - 1)
      [] OTHER             -> 0

\* struct.unpack of the map data: len(mapData) / 4 floats
unpackBody(f, h) ==
    LET numBytes == (f.bodyLen - h.symmetryBytes) \div 4
    IN  [k \in 1..numBytes |-> bodyValue(f.pattern, k - 1)]

\* parse(handle): the header, the size check, the cell check, the corrective
\* defaults, the body
parse ==
    /\ pc = "start"
    /\ call' = call /\ ret' = ret /\ blobs' = blobs /\ file' = file
    /\ IF headerRaises(file) # "none"
       THEN /\ pc' = "failed"
            /\ err' = headerRaises(file)
            /\ UNCHANGED <<header, matrix>>
       ELSE LET h == DensityHeaderOf(file)
            IN  IF ~sizeCheckPasses(h, file.bodyLen) \/ ~cellCheckPasses(h)
                THEN /\ pc' = "failed"
                     /\ err' = "AssertionError"
                     /\ UNCHANGED <<header, matrix>>
                ELSE /\ pc' = "parsed"
                     /\ err' = "none"
                     /\ header' = fixedHeader(h)
                     /\ matrix' = unpackBody(file, h)

----------------------------------------------------------------------------
(* The files parse is checked on: every combination of extents, interval   *)
(* counts (zero included), axis codes 0..3, symmetry lengths and body      *)
(* lengths around the expected one.                                        *)

AxisCodes == 0..3

SymmetryChoices == {0, 4}

\* a body length near the length the header announces, never negative
bodyLenNear(ncrs, sym, d) == Max(0, sym + mapSize(ncrs) + 4 * d)

ParseFiles ==
    { [ncrs          |-> e,
       crsStart      |-> <<0, 0, 0>>,
       nint          |-> n,
       xyzLength     |-> [i \in 1..3 |-> 2 * Max(n[i], 1)],
       angles        |-> <<90, 90, 90>>,
       col2xyz       |-> m[1],
       row2xyz       |-> m[2],
       sec2xyz       |-> m[3],
       symmetryBytes |-> s,
       futureUseTail |-> <<0, 0, 0>>,
       originEM      |-> <<0, 0, 0>>,
       bodyLen       |-> bodyLenNear(e, s, d),
       pattern       |-> "ramp"] :
      e \in Seq3(0..MaxExtent), n \in Seq3({0, MaxInterval}),
      m \in Seq3(AxisCodes), s \in SymmetryChoices, d \in -MaxDelta..MaxDelta }

NoCall == [op |-> "none"]

NoBlobs == [b \in {"a", "b"} |-> [made |-> FALSE]]

InitWith(files) ==
    /\ pc = "start"
    /\ file \in files
    /\ header = NoHeader
    /\ matrix = <<>>
    /\ err = "none"
    /\ call = NoCall
    /\ ret = 0
    /\ blobs = NoBlobs

InitParse == InitWith(ParseFiles)

NextParse == parse

SpecParse == InitParse /\ [][NextParse]_vars

----------------------------------------------------------------------------
(* Claims about parse.                                                     *)

\* the body length the header of the file announces
expectedBodyLen(f) == f.symmetryBytes + mapSize(f.ncrs)

\* C1: parse fails for every file whose body length differs from
\* symmetryBytes + mapSize, and the size check does not reject a body of
\* exactly that length: such a file is never failed by an AssertionError
\* (the cell edges drawn are not all zero).
C1_SizeMismatchFails ==
    pc # "start" =>
        /\ (file.bodyLen # expectedBodyLen(file) => pc = "failed")
        /\ (file.bodyLen = expectedBodyLen(file) => err # "AssertionError")

\* C1's case: the header is built, the body is as long as the symmetry
\* records alone although map data is announced, and parse has failed on the
\* size check
C1_Witness ==
    /\ pc = "failed" /\ err = "AssertionError"
    /\ file.bodyLen = file.symmetryBytes
    /\ file.symmetryBytes > 0 /\ mapSize(file.ncrs) > 0

\* the interval counts of the header, by xyz axis
headerIntervals(h) == <<h.nintervalX, h.nintervalY, h.nintervalZ>>

\* C2: a file that is otherwise well formed (body of the expected length,
\* axis codes a permutation of 1,2,3) and has interval count 0 only on axes
\* whose extent is positive is parsed, and on each such axis the header's
\* interval count is extent - 1.
C2_ZeroIntervalDefaulted ==
    ( /\ pc # "start"
      /\ file.bodyLen = expectedBodyLen(file)
      /\ {file.col2xyz, file.row2xyz, file.sec2xyz} = {1, 2, 3}
      /\ \A i \in 1..3 : file.nint[i] = 0 => file.ncrs[i] > 0 )
    => /\ pc = "parsed"
       /\ \A i \in 1..3 :
            file.nint[i] = 0 => headerIntervals(header)[i] = file.ncrs[i] - 1

\* C3: after a successful parse the axis-mapping fields are (1,2,3) if all
\* three were 0 in the file, and otherwise exactly the file's values.
C3_IdentityOnlyWhenAllZero ==
    pc = "parsed" =>
        <<header.col2xyz, header.row2xyz, header.sec2xyz>> =
            IF file.col2xyz = 0 /\ file.row2xyz = 0 /\ file.sec2xyz = 0
            THEN <<1, 2, 3>>
            ELSE <<file.col2xyz, file.row2xyz, file.sec2xyz>>

\* the axis codes of the file are a permutation of 1, 2, 3, or all three are 0
fileCodesWellFormed ==
    \/ {file.col2xyz, file.row2xyz, file.sec2xyz} = {1, 2, 3}
    \/ file.col2xyz = 0 /\ file.row2xyz = 0 /\ file.sec2xyz = 0

\* C12: in the header of a successful parse (of a file whose axis codes are
\* a permutation of 1,2,3 or all 0, the identity then substituted) map2xyz
\* and map2crs are each a bijection on {0,1,2}, they are inverse to each
\* other, and map2crs is (col2xyz - 1, row2xyz - 1, sec2xyz - 1) for the
\* final values of the three fields.
C12_DerivedPermutationsAgree ==
    (pc = "parsed" /\ fileCodesWellFormed) =>
      /\ { header.map2xyz[i] : i \in 1..3 } = 0..2
      /\ { header.map2crs[i] : i \in 1..3 } = 0..2
      /\ \A i \in 1..3 : /\ header.map2crs[header.map2xyz[i] + 1] = i - 1
                         /\ header.map2xyz[header.map2crs[i] + 1] = i - 1
      /\ header.map2crs =
           <<header.col2xyz - 1, header.row2xyz - 1, header.sec2xyz - 1>>

----------------------------------------------------------------------------
(* DensityHeader's coordinate methods and DensityMatrix's point query.     *)

\* numpy's self.density[i2, i1, i0] on the array reshaped to
\* (ncrs[2], ncrs[1], ncrs[0]): an index i of an axis of length n is good
\* when -n <= i < n, a negative one counting from the end
npIndex(i, n) == IF i < 0 THEN i + n ELSE i

npIndexRaises(i, n) == i < -n \/ i >= n

densityAt(h, m, i2, i1, i0) ==
    IF \/ npIndexRaises(i2, h.ncrs[3])
       \/ npIndexRaises(i1, h.ncrs[2])
       \/ npIndexRaises(i0, h.ncrs[1])
    THEN [raised |-> "IndexError", value |-> 0]
    ELSE [raised |-> "none",
          value  |-> m[ (npIndex(i2, h.ncrs[3]) * h.ncrs[2]
                          + npIndex(i1, h.ncrs[2])) * h.ncrs[1]
                        + npIndex(i0, h.ncrs[1]) + 1 ]]

\* one turn of validCRS's loop, on axis ind.  st.crs is crsCoord as it is
\* now, st.res is "run" while the loop goes on.  A coordinate outside
\* [0, ncrs) is wrapped in place, crsCoord[ind] -= floor(c / interval) *
\* interval, which a tuple does not support; then a coordinate in
\* [ncrs, crsInterval) ends the loop with False.
validCRSAxisOffByOne(h, st, mutable, ind) ==
    IF st.res # "run" THEN st
    ELSE LET c   == st.crs[ind + 1]
             out == c < 0 \/ c >= h.ncrs[ind + 1]
             c1  == IF out
                    THEN c - (c \div h.crsInterval[ind + 1]) * h.crsInterval[ind + 1]
                    ELSE c
         IN  IF out /\ ~mutable
             THEN [st EXCEPT !.res = "TypeError"]
             ELSE [crs |-> [st.crs EXCEPT ![ind + 1] = c1],
                   res |-> IF h.ncrs[ind + 1] < c1 /\ c1 < h.crsInterval[ind + 1]
                           THEN "False" ELSE "run"]

validCRSAxis(h, st, mutable, ind) ==
    IF st.res # "run" THEN st
    ELSE LET c   == st.crs[ind + 1]
             out == c < 0 \/ c >= h.ncrs[ind + 1]
             c1  == IF out
                    THEN c - (c \div h.crsInterval[ind + 1]) * h.crsInterval[ind + 1]
                    ELSE c
         IN  IF out /\ ~mutable
             THEN [st EXCEPT !.res = "TypeError"]
             ELSE [crs |-> [st.crs EXCEPT ![ind + 1] = c1],
                   res |-> IF h.ncrs[ind + 1] <= c1 /\ c1 < h.crsInterval[ind + 1]
                           THEN "False" ELSE "run"]

\* validCRS(crsCoord): the loop over the three axes; res is "True", "False"
\* or the exception raised, crs is crsCoord as the call leaves it
validCRS(h, crsCoord, mutable) ==
    LET s0 == [crs |-> crsCoord, res |-> "run"]
        s1 == validCRSAxis(h, s0, mutable, 0)
        s2 == validCRSAxis(h, s1, mutable, 1)
        s3 == validCRSAxis(h, s2, mutable, 2)
    IN  [s3 EXCEPT !.res = IF s3.res = "run" THEN "True" ELSE s3.res]

\* getPointDensityFromCrs(crsCoord): the grid value at the coordinate as
\* validCRS left it, or 0 when validCRS says False
pointDensity(h, m, crsCoord, mutable) ==
    LET v == validCRS(h, crsCoord, mutable)
    IN  CASE v.res = "True" ->
               LET d == densityAt(h, m, v.crs[3], v.crs[2], v.crs[1])
               IN  [raised |-> d.raised, value |-> d.value, crs |-> v.crs]
          [] v.res = "False" -> [raised |-> "none", value |-> 0, crs |-> v.crs]
          [] OTHER -> [raised |-> v.res, value |-> 0, crs |-> v.crs]

\* the action: a caller asks for the density at crs, handing it over as a
\* list (mutable) or as a tuple
getPointDensityFromCrs ==
    /\ pc = "parsed"
    /\ \E crs \in Seq3(-1..Max(MaxExtent, MaxInterval)), mutable \in BOOLEAN :
         LET r == pointDensity(header, matrix, crs, mutable)
         IN  /\ call' = [op |-> "getPointDensityFromCrs", crs |-> crs,
                         mutable |-> mutable, after |-> r.crs]
             /\ ret' = r.value
             /\ err' = r.raised
    /\ pc' = "returned"
    /\ UNCHANGED <<file, header, matrix, blobs>>

----------------------------------------------------------------------------
(* Well-formed files for the queries: the body is as long as the header    *)
(* announces and the axis codes are a permutation of 1,2,3.                *)

Permutations3 == { m \in Seq3(1..3) : {m[1], m[2], m[3]} = {1, 2, 3} }

\* a file with extents e, interval counts n, grid spacing g (per xyz axis),
\* axis codes m, start offsets st, the futureUse tail and originEM, and a
\* body of the expected length written with the given pattern
GridFile(e, n, g, m, st, tail, em, pattern) ==
    [ncrs          |-> e,
     crsStart      |-> st,
     nint          |-> n,
     xyzLength     |-> [i \in 1..3 |-> g[i] * n[i]],
     angles        |-> <<90, 90, 90>>,
     col2xyz       |-> m[1],
     row2xyz       |-> m[2],
     sec2xyz       |-> m[3],
     symmetryBytes |-> 0,
     futureUseTail |-> tail,
     originEM      |-> em,
     bodyLen       |-> mapSize(e),
     pattern       |-> pattern]

\* for the point query: the same extent on the three axes, every interval
\* count per axis (below, at and above the extent), every permutation; all
\* densities are nonzero
PointFiles ==
    { GridFile(<<e, e, e>>, n, <<2, 2, 2>>, m, <<0, 0, 0>>, <<0, 0, 0>>,
               <<0, 0, 0>>, "ramp") :
      e \in 1..MaxExtent, n \in Seq3(1..MaxInterval), m \in Permutations3 }

InitPoint == InitWith(PointFiles)

NextPoint == parse \/ getPointDensityFromCrs

SpecPoint == InitPoint /\ [][NextPoint]_vars

----------------------------------------------------------------------------
(* Claims about the point query.                                           *)

\* a coordinate as validateAndWrap leaves it on one axis: wrapped by the
\* interval count when it is outside [0, extent), kept otherwise
wrapped(c, extent, interval) ==
    IF c < 0 \/ c >= extent THEN c % interval ELSE c

\* the wrapped form of the coordinate of the last point query, per axis
wrappedCall == [i \in 1..3 |->
                  wrapped(call.crs[i], header.ncrs[i], header.crsInterval[i])]

PointCallOnList == pc = "returned" /\ call.op = "getPointDensityFromCrs" /\ call.mutable

\* C4, as the spec states it: a point query on a coordinate (a list) whose
\* wrapped form lies outside [0, uniqueExtent) on some axis, uniqueExtent =
\* min(extent, mapped interval count), returns exactly 0.
C4_ZeroOutsideUniqueExtent ==
    ( /\ PointCallOnList
      /\ \E i \in 1..3 :
           ~(0 <= wrappedCall[i]
             /\ wrappedCall[i] < Min(header.ncrs[i], header.crsInterval[i])) )
    => (err = "none" /\ ret = 0)

\* C4, amended: a point query on a coordinate (a list) whose wrapped form
\* lies outside [0, extent) on some axis returns exactly 0.
C4_ZeroOutsideExtent ==
    ( /\ PointCallOnList
      /\ \E i \in 1..3 :
           ~(0 <= wrappedCall[i] /\ wrappedCall[i] < header.ncrs[i]) )
    => (err = "none" /\ ret = 0)

\* C4's case: a negative coordinate on the last axis wraps into
\* [extent, interval) while the first two axes are in range, and the query
\* has returned 0
C4_Witness ==
    /\ PointCallOnList
    /\ call.crs[3] < 0
    /\ wrappedCall[3] >= header.ncrs[3]
    /\ 0 <= call.crs[1] /\ call.crs[1] < header.ncrs[1]
    /\ 0 <= call.crs[2] /\ call.crs[2] < header.ncrs[2]
    /\ header.map2crs # <<0, 1, 2>>
    /\ err = "none" /\ ret = 0

----------------------------------------------------------------------------
(* xyz2crsCoord, crs2xyzCoord (the orthogonal branch) and the sphere query *)

\* Python's round() of the fraction n / d, d > 0: to the nearest integer,
\* a tie to the even one
roundHalfEven(n, d) ==
    LET q == n \div d
        r == n % d
    IN  IF 2 * r < d THEN q
        ELSE IF 2 * r > d THEN q + 1
        ELSE IF q % 2 = 0 THEN q ELSE q + 1

\* xyz2crsCoord(xyzCoord): the grid position per xyz axis, then permuted
\* into column/row/section order by map2crs
xyz2crsCoordByMap2xyz(h, xyzCoord) ==
    LET crsGridPos == [i \in 1..3 |->
                         roundHalfEven(xyzCoord[i] - h.origin.at[i], h.gridLength[i])]
    IN  [i \in 1..3 |-> At(crsGridPos, h.map2xyz[i])]

xyz2crsCoord(h, xyzCoord) ==
    LET crsGridPos == [i \in 1..3 |->
                         roundHalfEven(xyzCoord[i] - h.origin.at[i], h.gridLength[i])]
    IN  [i \in 1..3 |-> At(crsGridPos, h.map2crs[i])]

\* crs2xyzCoord(crsCoord)
crs2xyzCoord(h, crsCoord) ==
    [i \in 1..3 |-> At(crsCoord, h.map2xyz[i]) * h.gridLength[i] + h.origin.at[i]]

\* self.origin + [radius, radius, radius]: elementwise on the numpy array,
\* but a concatenation on the Python list of the originEM branch, of which
\* xyz2crsCoord reads the first three items
originPlusRadius(h, radius) ==
    IF h.origin.kind = "ndarray"
    THEN [i \in 1..3 |-> h.origin.at[i] + radius]
    ELSE h.origin.at

\* the box the sphere query enumerates:
\* range(crsCoord[k] - crsRadius[k] - 1, crsCoord[k] + crsRadius[k] + 1)
sphereBox(h, xyzCoord, radius) ==
    LET crsCoord  == xyz2crsCoord(h, xyzCoord)
        crsRadius == xyz2crsCoord(h, originPlusRadius(h, radius))
    IN  { <<c, r, s>> :
            c \in (crsCoord[1] - crsRadius[1] - 1)..(crsCoord[1] + crsRadius[1]),
            r \in (crsCoord[2] - crsRadius[2] - 1)..(crsCoord[2] + crsRadius[2]),
            s \in (crsCoord[3] - crsRadius[3] - 1)..(crsCoord[3] + crsRadius[3]) }

\* the test on the density cutoff
passesCutoff(density, densityCutoff) ==
    \/ (0 < densityCutoff /\ densityCutoff < density)
    \/ (density < densityCutoff /\ densityCutoff < 0)
    \/ densityCutoff = 0

\* sqrt(dx^2 + dy^2 + dz^2) <= radius, for radius >= 0
withinRadius(xyz, xyzCoord, radius) ==
    (xyz[1] - xyzCoord[1]) * (xyz[1] - xyzCoord[1])
    + (xyz[2] - xyzCoord[2]) * (xyz[2] - xyzCoord[2])
    + (xyz[3] - xyzCoord[3]) * (xyz[3] - xyzCoord[3]) <= radius * radius

\* getSphereCrsFromXyz: every crs of the box is handed to
\* getPointDensityFromCrs as a tuple, so the first one validCRS has to wrap
\* raises; otherwise the crs that pass the cutoff and lie within the radius
\* (crsCoordList, which lists no crs twice, as a set)
sphereCrs(h, m, xyzCoord, radius, densityCutoff) ==
    LET box == sphereBox(h, xyzCoord, radius)
    IN  IF \E crs \in box : pointDensity(h, m, crs, FALSE).raised # "none"
        THEN [raised |-> "TypeError", value |-> {}]
        ELSE [raised |-> "none",
              value  |-> { crs \in box :
                             /\ passesCutoff(pointDensity(h, m, crs, FALSE).value,
                                             densityCutoff)
                             /\ withinRadius(crs2xyzCoord(h, crs), xyzCoord, radius) }]

\* the largest radius of a sphere query, in half angstroms
MaxRadius == 2

\* the centres drawn: every half grid position from the origin to one past
\* the largest extent
SphereCentres == Seq3(0..(2 * MaxExtent + 1))

DensityCutoffs == {-1, 0, 1}

getSphereCrsFromXyz ==
    /\ pc = "parsed"
    /\ \E xyzCoord \in SphereCentres, radius \in 1..MaxRadius,
          densityCutoff \in DensityCutoffs :
         LET r == sphereCrs(header, matrix, xyzCoord, radius, densityCutoff)
         IN  /\ call' = [op |-> "getSphereCrsFromXyz", xyzCoord |-> xyzCoord,
                         radius |-> radius, densityCutoff |-> densityCutoff]
             /\ ret' = r.value
             /\ err' = r.raised
    /\ pc' = "returned"
    /\ UNCHANGED <<file, header, matrix, blobs>>

\* the action: a grid coordinate in range is converted to xyz and back
crsRoundTrip ==
    /\ pc = "parsed"
    /\ \E crs \in Seq3(0..(MaxExtent + 1)) :
         /\ \A k \in 1..3 : crs[k] < header.ncrs[k]
         /\ call' = [op |-> "xyz2crsCoord", crs |-> crs,
                     xyzCoord |-> crs2xyzCoord(header, crs)]
         /\ ret' = xyz2crsCoord(header, crs2xyzCoord(header, crs))
    /\ err' = "none"
    /\ pc' = "returned"
    /\ UNCHANGED <<file, header, matrix, blobs>>

\* grid spacings drawn per xyz axis (1 and 1.5 angstrom) and start offsets
GridSteps == {2, 3}

StartChoices == {-1, 0, 2}

\* for the coordinate transforms: every extent, spacing, permutation and
\* start offset per axis
CoordFiles ==
    { GridFile(e, <<MaxInterval, MaxInterval, MaxInterval>>, g, m, st,
               <<0, 0, 0>>, <<0, 0, 0>>, "ramp") :
      e \in Seq3(1..MaxExtent), g \in Seq3(GridSteps), m \in Permutations3,
      st \in Seq3(StartChoices) }

InitCoord == InitWith(CoordFiles)

NextCoord == parse \/ crsRoundTrip

SpecCoord == InitCoord /\ [][NextCoord]_vars

\* for the sphere query: a cubic map and one twice as long on the column
\* axis, intervals equal to the extents, spacing 1 angstrom, every
\* permutation, the origin from crsStart or from originEM, two bodies
SphereFiles ==
    { GridFile(e, e, <<2, 2, 2>>, m, <<0, 0, 0>>, tail, <<0, 0, 0>>, pattern) :
      e \in { <<MaxExtent, MaxExtent, MaxExtent>>,
              <<2 * MaxExtent, MaxExtent, MaxExtent>> },
      m \in Permutations3, tail \in {<<0, 0, 0>>, <<0, 0, 1>>},
      pattern \in {"spike", "mixed"} }

InitSphere == InitWith(SphereFiles)

NextSphere == parse \/ getSphereCrsFromXyz

SpecSphere == InitSphere /\ [][NextSphere]_vars

----------------------------------------------------------------------------
(* Claims about the sphere query and the coordinate transforms.            *)

SphereCall == pc = "returned" /\ call.op = "getSphereCrsFromXyz"

\* C5: a sphere query whose enumerated box reaches outside [0, extent) on
\* some axis completes: the point query raises nothing on the out-of-range
\* coordinates the enumeration hands it.
C5_SphereCompletesOutsideExtent ==
    ( /\ SphereCall
      /\ \E crs \in sphereBox(header, call.xyzCoord, call.radius) :
           \E k \in 1..3 : crs[k] < 0 \/ crs[k] >= header.ncrs[k] )
    => err = "none"

\* the crs the sphere query is to return: every integer coordinate whose
\* position is within the radius of the centre and whose point density (0
\* when invalid, else the grid value at the wrapped coordinate) passes the
\* cutoff
exactSphere(h, m, xyzCoord, radius, densityCutoff) ==
    LET lo == [i \in 1..3 |-> (xyzCoord[i] - radius - h.origin.at[i]) \div h.gridLength[i]]
        hi == [i \in 1..3 |-> (xyzCoord[i] + radius - h.origin.at[i]) \div h.gridLength[i]]
        span == Min(lo[1], Min(lo[2], lo[3]))..Max(hi[1], Max(hi[2], hi[3]))
    IN  { crs \in Seq3(span) :
            /\ withinRadius(crs2xyzCoord(h, crs), xyzCoord, radius)
            /\ passesCutoff(pointDensity(h, m, crs, TRUE).value, densityCutoff) }

\* the scenario of the spec: extent (2,2,2), spacing 1, origin (0,0,0),
\* density 5 at (0,0,0) and 0 elsewhere, centre (0,0,0), radius 0.5,
\* cutoff 0.1
SphereScenario ==
    /\ SphereCall
    /\ header.ncrs = <<2, 2, 2>> /\ header.gridLength = <<2, 2, 2>>
    /\ header.origin.at = <<0, 0, 0>> /\ file.pattern = "spike"
    /\ call.xyzCoord = <<0, 0, 0>> /\ call.radius = 1 /\ call.densityCutoff = 1

\* C6: a sphere query that completes returns exactly the coordinates within
\* the radius that pass the cutoff, and in the scenario it completes and
\* returns {(0,0,0)}.
C6_SphereExact ==
    /\ (SphereCall /\ err = "none") =>
          ret = exactSphere(header, matrix, call.xyzCoord, call.radius,
                            call.densityCutoff)
    /\ SphereScenario => (err = "none" /\ ret = {<<0, 0, 0>>})

\* C7: for an orthogonal header with a valid axis permutation and any
\* crsStart, converting a grid coordinate in range to xyz and back gives the
\* coordinate again.
C7_RoundTrip ==
    (pc = "returned" /\ call.op = "xyz2crsCoord") => ret = call.crs

\* C7's case: a round trip under a cyclic permutation of the axes with a
\* nonzero start offset, on a coordinate whose items differ
C7_Witness ==
    /\ pc = "returned" /\ call.op = "xyz2crsCoord"
    /\ <<header.col2xyz, header.row2xyz, header.sec2xyz>> = <<2, 3, 1>>
    /\ header.crsStart = <<2, -1, 0>>
    /\ call.crs = <<1, 0, 0>>
    /\ ret = call.crs

----------------------------------------------------------------------------
(* DensityBlob.                                                            *)

RECURSIVE sumUpTo(_, _)
\* f[1] + ... + f[n]
sumUpTo(f, n) == IF n = 0 THEN 0 ELSE f[n] + sumUpTo(f, n - 1)

RECURSIVE seqOfSet(_)
\* the items of a set in the order an iteration meets them (any order)
seqOfSet(S) ==
    IF S = {} THEN <<>>
    ELSE LET x == CHOOSE y \in S : TRUE
         IN  <<x>> \o seqOfSet(S \ {x})

\* numpy's float64 division w / d: a zero divisor raises nothing and gives
\* nan (0/0) or an infinity; otherwise the fraction w / d
npDivide(w, d) ==
    IF d # 0 THEN [kind |-> "num", n |-> w, d |-> d]
    ELSE IF w = 0 THEN [kind |-> "nan", n |-> 0, d |-> 0]
    ELSE IF w > 0 THEN [kind |-> "inf", n |-> 0, d |-> 0]
    ELSE [kind |-> "-inf", n |-> 0, d |-> 0]

NoBlob == [made |-> FALSE]

\* DensityBlob.fromCrsList(crsList, header, densityMatrix) on the points of
\* crsList in order (lst) and len(crsList) (npoints): the matrix is indexed
\* with the points as given, the sums are taken, and the blob is built with
\* the set of the points and an empty atoms list.  An empty crsList divides
\* the Python ints 0 / 0.
fromCrsList(h, m, lst) ==
    LET n    == Len(lst)
        den  == [k \in 1..n |-> densityAt(h, m, lst[k][3], lst[k][2], lst[k][1])]
        xyz  == [k \in 1..n |-> crs2xyzCoord(h, lst[k])]
        totalDen == sumUpTo([k \in 1..n |-> den[k].value], n)
        weights  == [i \in 1..3 |->
                       sumUpTo([k \in 1..n |-> den[k].value * xyz[k][i]], n)]
    IN  IF \E k \in 1..n : den[k].raised # "none"
        THEN [raised |-> "IndexError", blob |-> NoBlob]
        ELSE IF n = 0
        THEN [raised |-> "ZeroDivisionError", blob |-> NoBlob]
        ELSE [raised |-> "none",
              blob |-> [made         |-> TRUE,
                        centroid     |-> [i \in 1..3 |-> npDivide(weights[i], totalDen)],
                        coordCenter  |-> [i \in 1..3 |->
                                            [n |-> sumUpTo([k \in 1..n |-> xyz[k][i]], n),
                                             d |-> n]],
                        totalDensity |-> totalDen,
                        volume       |-> h.unitVolume * n,
                        crsList      |-> {lst[k] : k \in 1..n},
                        atoms        |-> <<>>]]

\* the atoms of the merged blob: self.atoms, then the atoms of otherBlob
\* that are not in self.atoms
mergedAtoms(selfAtoms, otherAtoms) ==
    selfAtoms \o SelectSeq(otherAtoms,
                           LAMBDA atom : \A k \in 1..Len(selfAtoms) : selfAtoms[k] # atom)

\* the longest crsList handed to fromCrsList, and the longest atoms list
MaxListLen == 2
MaxAtoms == 2

\* the crs drawn for blobs: the cells of the first row, one coordinate below
\* and one above the extent on the column axis, and the first cell of the
\* second row
BlobCoords == { <<c, 0, 0>> : c \in -1..MaxExtent } \cup { <<0, 1, 0>> }

ListsOver(S, n) == UNION { [1..k -> S] : k \in 0..n }

AtomNames == {"N", "CA"}

\* the action: DensityBlob.fromCrsList builds blob a, then blob b
fromCrsListCall ==
    /\ pc \in {"parsed", "madeA"}
    /\ \E lst \in ListsOver(BlobCoords, MaxListLen) :
         LET name == IF pc = "parsed" THEN "a" ELSE "b"
             r    == fromCrsList(header, matrix, lst)
         IN  /\ call' = [op |-> "fromCrsList", name |-> name, crsList |-> lst]
             /\ err' = r.raised
             /\ IF r.raised = "none"
                THEN /\ blobs' = [blobs EXCEPT ![name] = r.blob]
                     /\ pc' = IF pc = "parsed" THEN "madeA" ELSE "madeB"
                ELSE /\ blobs' = blobs
                     /\ pc' = "raised"
    /\ UNCHANGED <<file, header, matrix, ret>>

\* the action: the caller assigns the atoms of blob a, then of blob b
\* (the atoms list is filled from outside the module)
assignAtoms ==
    /\ pc \in {"madeB", "annotatedA"}
    /\ \E atoms \in ListsOver(AtomNames, MaxAtoms) :
         LET name == IF pc = "madeB" THEN "a" ELSE "b"
         IN  /\ blobs' = [blobs EXCEPT ![name].atoms = atoms]
             /\ call' = [op |-> "atoms", name |-> name]
    /\ pc' = IF pc = "madeB" THEN "annotatedA" ELSE "ready"
    /\ err' = "none"
    /\ UNCHANGED <<file, header, matrix, ret>>

\* the action: self.merge(otherBlob).  The coordinate set of self is updated
\* first; the new blob's fields then replace those of self, and the atoms
\* are set last.
merge ==
    /\ pc = "ready"
    /\ \E self \in {"a", "b"} :
         LET other  == IF self = "a" THEN "b" ELSE "a"
             union  == blobs[self].crsList \cup blobs[other].crsList
             atoms  == mergedAtoms(blobs[self].atoms, blobs[other].atoms)
             r      == fromCrsList(header, matrix, seqOfSet(union))
         IN  /\ call' = [op |-> "merge", self |-> self, other |-> other,
                         before |-> blobs]
             /\ err' = r.raised
             /\ blobs' = IF r.raised = "none"
                         THEN [blobs EXCEPT ![self] = [r.blob EXCEPT !.atoms = atoms]]
                         ELSE [blobs EXCEPT ![self].crsList = union]
    /\ pc' = "ready"
    /\ UNCHANGED <<file, header, matrix, ret>>

\* for the blobs: a map of one section with densities -1, 0, 1, -1, ... and
\* the identity or a swapped axis mapping
BlobFiles ==
    { GridFile(<<MaxExtent, MaxExtent, 1>>, <<MaxExtent, MaxExtent, 1>>,
               <<2, 2, 2>>, m, <<0, 0, 0>>, <<0, 0, 0>>, <<0, 0, 0>>, "mixed") :
      m \in {<<1, 2, 3>>, <<2, 1, 3>>} }

InitBlob == InitWith(BlobFiles)

NextBlob == parse \/ fromCrsListCall \/ assignAtoms \/ merge

SpecBlob == InitBlob /\ [][NextBlob]_vars

----------------------------------------------------------------------------
(* Claims about blobs.                                                     *)

\* the densities of the points of a list, as fromCrsList reads them
listDensities(lst) ==
    [k \in 1..Len(lst) |-> densityAt(header, matrix, lst[k][3], lst[k][2], lst[k][1])]

\* a crs inside the grid
inGrid(crs) == \A k \in 1..3 : 0 <= crs[k] /\ crs[k] < header.ncrs[k]

\* C8: building a blob from a non-empty list of coordinates of the grid
\* whose member densities sum to 0 fails at the construction call.
C8_ZeroDensityBlobFails ==
    ( /\ pc \in {"madeA", "madeB", "raised"}
      /\ call.op = "fromCrsList"
      /\ Len(call.crsList) > 0
      /\ \A k \in 1..Len(call.crsList) : inGrid(call.crsList[k])
      /\ sumUpTo([k \in 1..Len(call.crsList) |-> listDensities(call.crsList)[k].value],
                 Len(call.crsList)) = 0 )
    => (pc = "raised" /\ err # "none")

\* C9: every blob (of coordinates of the grid) has volume = (number of
\* distinct coordinates of its set) * unitVolume, right after fromCrsList on
\* any list and after any merges; and after a merge the coordinate set of
\* self is the union of the two sets before the call.
C9_VolumeCountsDistinct ==
    /\ \A name \in {"a", "b"} :
         (blobs[name].made /\ \A crs \in blobs[name].crsList : inGrid(crs)) =>
           blobs[name].volume = Cardinality(blobs[name].crsList) * header.unitVolume
    /\ call.op = "merge" =>
         blobs[call.self].crsList =
           call.before[call.self].crsList \cup call.before[call.other].crsList

\* the items of a list
itemsOf(lst) == { lst[k] : k \in 1..Len(lst) }

\* C10: after a.merge(b) the atoms of a hold every atom that a or b held
\* before, none of them more than once, and the atoms of b are unchanged.
C10_MergedAtomsUnique ==
    call.op = "merge" =>
      LET now == blobs[call.self].atoms
      IN  /\ itemsOf(now) = itemsOf(call.before[call.self].atoms)
                            \cup itemsOf(call.before[call.other].atoms)
          /\ \A j, k \in 1..Len(now) : j # k => now[j] # now[k]
          /\ blobs[call.other].atoms = call.before[call.other].atoms

----------------------------------------------------------------------------
(* The bytes of the file: DensityHeader.fromFileHeader and the body.       *)
(* A 4-byte field is a sequence of four bytes in file order.  A 32-bit     *)
(* float is identified with the signed integer its four bytes denote, so   *)
(* of the decoding of a float only the byte order is modelled.             *)

\* the three low bytes of a word, the first byte the least significant
low24(b1, b2, b3) == b1 + 256 * b2 + 65536 * b3

\* int.from_bytes(b, byteorder='little'): unsigned.  A value of 2^31 or
\* more is written 2147483647 (the largest integer here): it is only
\* compared with 6.
fromBytesLittle(b) ==
    IF b[4] >= 128 THEN 2147483647 ELSE low24(b[1], b[2], b[3]) + 16777216 * b[4]

\* the test for endianness: '<' if 0 <= mode <= 6 else '>'
endianOfBelowSix(fileHeader) ==
    LET mode == fromBytesLittle(fileHeader.mode)
    IN  IF 0 <= mode /\ mode < 6 THEN "<" ELSE ">"

endianOf(fileHeader) ==
    LET mode == fromBytesLittle(fileHeader.mode)
    IN  IF 0 <= mode /\ mode <= 6 THEN "<" ELSE ">"

\* struct.unpack of one 4-byte field ('i', or 'f' read as its bits) with the
\* byte order endian: two's complement, signed
structUnpack(endian, b) ==
    LET l == IF endian = "<" THEN b ELSE <<b[4], b[3], b[2], b[1]>>
    IN  low24(l[1], l[2], l[3]) + 16777216 * (IF l[4] >= 128 THEN l[4] - 256 ELSE l[4])

\* headerTuple: struct.unpack(headerFormat, fileHeader[:224]) with the byte
\* order chosen, every field with the same one; bodyLen is len(dataBuffer)
headerTupleOf(endian, raw) ==
    [ncrs          |-> [i \in 1..3 |-> structUnpack(endian, raw.ncrs[i])],
     mode          |-> structUnpack(endian, raw.mode),
     crsStart      |-> [i \in 1..3 |-> structUnpack(endian, raw.crsStart[i])],
     nint          |-> [i \in 1..3 |-> structUnpack(endian, raw.nint[i])],
     xyzLength     |-> [i \in 1..3 |-> structUnpack(endian, raw.xyzLength[i])],
     angles        |-> [i \in 1..3 |-> structUnpack(endian, raw.angles[i])],
     col2xyz       |-> structUnpack(endian, raw.col2xyz),
     row2xyz       |-> structUnpack(endian, raw.row2xyz),
     sec2xyz       |-> structUnpack(endian, raw.sec2xyz),
     symmetryBytes |-> structUnpack(endian, raw.symmetryBytes),
     futureUseTail |-> [i \in 1..3 |-> structUnpack(endian, raw.futureUseTail[i])],
     originEM      |-> [i \in 1..3 |-> structUnpack(endian, raw.originEM[i])],
     bodyLen       |-> 4 * Len(raw.data)]

\* densities: struct.unpack(endian + numBytes * 'f', mapData), mapData the
\* words of the data buffer after the symmetry records
unpackData(endian, raw, h) ==
    LET skip     == h.symmetryBytes \div 4
        numBytes == Len(raw.data) - skip
    IN  [k \in 1..numBytes |-> structUnpack(endian, raw.data[skip + k])]

\* parse(handle) on the bytes of a file: fromFileHeader chooses the byte
\* order and unpacks the header with it, parse unpacks the body with
\* header.endian
parseBytes ==
    /\ pc = "start"
    /\ ret' = ret /\ blobs' = blobs /\ file' = file
    /\ LET endian == endianOf(file)
           t      == headerTupleOf(endian, file)
       IN  /\ call' = [op |-> "fromFileHeader", endian |-> endian, headerTuple |-> t]
           /\ IF headerRaises(t) # "none"
              THEN /\ pc' = "failed"
                   /\ err' = headerRaises(t)
                   /\ UNCHANGED <<header, matrix>>
              ELSE LET h == DensityHeaderOf(t)
                   IN  IF ~sizeCheckPasses(h, t.bodyLen) \/ ~cellCheckPasses(h)
                       THEN /\ pc' = "failed"
                            /\ err' = "AssertionError"
                            /\ UNCHANGED <<header, matrix>>
                       ELSE /\ pc' = "parsed"
                            /\ err' = "none"
                            /\ header' = fixedHeader(h)
                            /\ matrix' = unpackData(endian, file, h)

\* the largest value of the mode field drawn (the smallest is -1)
MaxMode == 7

\* the four bytes a writer of the given byte order stores for the value v,
\* |v| < 2^23
wordOf(order, v) ==
    LET l == <<v % 256, (v \div 256) % 256, (v \div 65536) % 256,
               IF v < 0 THEN 255 ELSE 0>>
    IN  IF order = "<" THEN l ELSE <<l[4], l[3], l[2], l[1]>>

\* the bytes of the file with header tuple f, mode field `mode` and the body
\* of f, as a writer of the given byte order stores them
bytesOf(order, f, mode) ==
    [ncrs          |-> [i \in 1..3 |-> wordOf(order, f.ncrs[i])],
     mode          |-> wordOf(order, mode),
     crsStart      |-> [i \in 1..3 |-> wordOf(order, f.crsStart[i])],
     nint          |-> [i \in 1..3 |-> wordOf(order, f.nint[i])],
     xyzLength     |-> [i \in 1..3 |-> wordOf(order, f.xyzLength[i])],
     angles        |-> [i \in 1..3 |-> wordOf(order, f.angles[i])],
     col2xyz       |-> wordOf(order, f.col2xyz),
     row2xyz       |-> wordOf(order, f.row2xyz),
     sec2xyz       |-> wordOf(order, f.sec2xyz),
     symmetryBytes |-> wordOf(order, f.symmetryBytes),
     futureUseTail |-> [i \in 1..3 |-> wordOf(order, f.futureUseTail[i])],
     originEM      |-> [i \in 1..3 |-> wordOf(order, f.originEM[i])],
     data          |-> [k \in 1..(f.bodyLen \div 4) |->
                          wordOf(order, bodyValue(f.pattern, k - 1))]]

\* the files of either byte order, with every mode from -1 to MaxMode, of
\* well-formed maps of every extent and axis permutation
ByteFiles ==
    { bytesOf(order,
              GridFile(e, <<MaxInterval, MaxInterval, MaxInterval>>, <<2, 2, 2>>,
                       m, <<0, 0, 0>>, <<0, 0, 0>>, <<0, 0, 0>>, pattern),
              mode) :
      order \in {"<", ">"}, e \in Seq3(1..MaxExtent), m \in Permutations3,
      pattern \in {"ramp", "mixed"}, mode \in -1..MaxMode }

InitBytes == InitWith(ByteFiles)

NextBytes == parseBytes

SpecBytes == InitBytes /\ [][NextBytes]_vars

----------------------------------------------------------------------------
(* Claims about the byte order.                                            *)

\* the value of a 4-byte field read least significant byte first, and read
\* most significant byte first
readLittle(b) ==
    b[1] + 256 * b[2] + 65536 * b[3] + 16777216 * (IF b[4] > 127 THEN b[4] - 256 ELSE b[4])

readBig(b) ==
    b[4] + 256 * b[3] + 65536 * b[2] + 16777216 * (IF b[1] > 127 THEN b[1] - 256 ELSE b[1])

\* bytes 12..15 as a little-endian integer are one of 0..6
modeBytesInZeroToSix == file.mode \in { <<v, 0, 0, 0>> : v \in 0..6 }

readChosen(b) == IF modeBytesInZeroToSix THEN readLittle(b) ELSE readBig(b)

\* C11: the byte order is little-endian if bytes 12..15, read as a
\* little-endian 32-bit integer, are in 0..6 and big-endian otherwise, and
\* every header field and every density value is decoded with that order.
C11_OneByteOrder ==
    pc # "start" =>
      /\ call.endian = IF modeBytesInZeroToSix THEN "<" ELSE ">"
      /\ \A i \in 1..3 :
           /\ call.headerTuple.ncrs[i] = readChosen(file.ncrs[i])
           /\ call.headerTuple.crsStart[i] = readChosen(file.crsStart[i])
           /\ call.headerTuple.nint[i] = readChosen(file.nint[i])
           /\ call.headerTuple.xyzLength[i] = readChosen(file.xyzLength[i])
           /\ call.headerTuple.angles[i] = readChosen(file.angles[i])
           /\ call.headerTuple.futureUseTail[i] = readChosen(file.futureUseTail[i])
           /\ call.headerTuple.originEM[i] = readChosen(file.originEM[i])
      /\ call.headerTuple.mode = readChosen(file.mode)
      /\ call.headerTuple.col2xyz = readChosen(file.col2xyz)
      /\ call.headerTuple.row2xyz = readChosen(file.row2xyz)
      /\ call.headerTuple.sec2xyz = readChosen(file.sec2xyz)
      /\ call.headerTuple.symmetryBytes = readChosen(file.symmetryBytes)
      /\ pc = "parsed" =>
           /\ Len(matrix) = Len(file.data)
           /\ \A k \in 1..Len(matrix) : matrix[k] = readChosen(file.data[k])

\* C11's case: a big-endian file of mode 7 with a negative density is
\* parsed, big-endian, and its densities are the values written
C11_Witness ==
    /\ pc = "parsed"
    /\ call.endian = ">"
    /\ file.mode = <<0, 0, 0, 7>>
    /\ header.ncrs = <<2, 1, 2>>
    /\ matrix = <<-10, 0, 10, -10>>

\* the points of a list are pairwise different (the list lists a set)
noRepeats(lst) == \A j, k \in 1..Len(lst) : j # k => lst[j] # lst[k]

\* the densities getPointDensityFromCrs returns for the points of a list,
\* each point given as a list
pointDensities(lst) ==
    [k \in 1..Len(lst) |-> pointDensity(header, matrix, lst[k], TRUE).value]

====
